---- MODULE Spec2Model ----
(***************************************************************************)
(* Booking conflict prevention and availability resolution of the          *)
(* Guestara menu/services backend: createBooking, cancelBooking and the    *)
(* stores they read and write.                                             *)
(*                                                                         *)
(* Encoding.  Times of day are the zero-padded "HH:MM" strings of the      *)
(* source; the model writes them as slot numbers 0..MaxTime in the same    *)
(* order (the source compares the strings with <, <=, >, >= and on         *)
(* fixed-width zero-padded strings that order is the chronological one).   *)
(* A calendar date "YYYY-MM-DD" is the number of days since Sunday         *)
(* 2026-01-25; new Date("YYYY-MM-DD") is the instant of UTC midnight of    *)
(* that day, counted in hours.                                             *)
(*                                                                         *)
(* The customer fields of a booking play no part in any check of the        *)
(* service and are left out; dates are taken not to lie in the past (the   *)
(* second refinement of createBookingSchema).                              *)
(*                                                                         *)
(* Every await of the source is a separate step of a call, so that calls   *)
(* interleave exactly where the event loop lets them.  A step that only    *)
(* changes the call's own session (abortTransaction, endSession) is taken  *)
(* together with the step that leads to it.                                *)
(*                                                                         *)
(* Specifications.  Spec: createBooking and cancelBooking on one bookable  *)
(* item with a fixed rule store.  SpecKeys: the same calls on two bookable *)
(* items and two dates.  SpecSlots: SpecKeys with getAvailableSlots and    *)
(* the deactivation of a rule.  SpecRules: createAvailability,             *)
(* updateAvailability and softDeleteAvailability from an empty rule store. *)
(***************************************************************************)
EXTENDS Integers, Sequences, FiniteSets, TLC

\* ------------------------------------------------------------------ bounds
MaxBookings == 2
MaxRules == 1

\* Four time slots realise every order of the endpoints of two intervals.
Times == 0..3
MaxTime == CHOOSE t \in Times : \A u \in Times : u <= t
Calls == {1, 2}
Dates == {0, 1}
TzOffsets == {-5, 0}

\* Intervals a caller asks for: every proper one, an empty one and a
\* reversed one.
Intervals ==
    { iv \in Times \X Times : iv[1] < iv[2] } \cup { <<1, 1>>, <<2, 1>> }

\* --------------------------------------------------------------- constants
days == <<"SUN", "MON", "TUE", "WED", "THU", "FRI", "SAT">>

CONFIRMED == "confirmed"
CANCELLED == "cancelled"

ItemIds == {"room", "coffee", "ghost"}

\* The catalog the booking engine reads: a bookable item, an item that is
\* not bookable, and an id ("ghost") under which no item is stored.
Catalog == [room |-> [isBookable |-> TRUE], coffee |-> [isBookable |-> FALSE]]

Rule(id, item, day, s, e, active) ==
    [id |-> id, itemId |-> item, dayOfWeek |-> day,
     startTime |-> s, endTime |-> e, isActive |-> active]

\* Rule stores an operator can have built with createAvailability,
\* updateAvailability and softDeleteAvailability: one wide window; two
\* windows with a gap plus a deactivated wide one; two adjacent windows.
RuleConfigs ==
    { { Rule(1, "room", "MON", 0, MaxTime, TRUE) },
      { Rule(1, "room", "SUN", 0, 1, TRUE),
        Rule(2, "room", "SUN", 2, MaxTime, TRUE),
        Rule(3, "room", "SUN", 0, MaxTime, FALSE) },
      { Rule(1, "room", "SUN", 0, 1, TRUE),
        Rule(2, "room", "SUN", 1, MaxTime, TRUE) } }

NoReq ==
    [itemId |-> "none", bookingDate |-> 0, startTime |-> 0, endTime |-> 0, id |-> 0,
     customerName |-> <<>>]
NoBooking ==
    [id |-> 0, itemId |-> "none", bookingDate |-> 0, startTime |-> 0, endTime |-> 0,
     status |-> "none", customerName |-> <<>>]

\* Strings of the customer fields, as sequences of characters.
John == <<"J">>

\* Inputs of createBooking.  Requests for the two items that never reach
\* the availability check carry one interval only.
CreateBookingInputs ==
    { [itemId |-> "room", bookingDate |-> d, startTime |-> iv[1], endTime |-> iv[2], id |-> 0,
       customerName |-> John] :
        d \in Dates, iv \in Intervals }
    \cup
    { [itemId |-> i, bookingDate |-> 0, startTime |-> 0, endTime |-> 1, id |-> 0,
       customerName |-> John] :
        i \in {"coffee", "ghost"} }

\* A catalog with a second bookable item.
CatalogTwo ==
    [room |-> [isBookable |-> TRUE], hall |-> [isBookable |-> TRUE],
     coffee |-> [isBookable |-> FALSE]]

\* A rule store for it: one window on SUN and two adjacent windows on MON
\* for the room, one window on SUN for the hall.
SlotRules ==
    { Rule(1, "room", "SUN", 0, MaxTime, TRUE),
      Rule(2, "room", "MON", 0, 2, TRUE),
      Rule(3, "room", "MON", 2, MaxTime, TRUE),
      Rule(4, "hall", "SUN", 0, MaxTime, TRUE) }

\* Requests for the two bookable items on the two dates.
KeyBookingInputs ==
    { [itemId |-> "room", bookingDate |-> d, startTime |-> iv[1], endTime |-> iv[2], id |-> 0,
       customerName |-> John] :
        d \in Dates, iv \in { <<0, 1>>, <<1, 2>> } }
    \cup
    { [itemId |-> "hall", bookingDate |-> d, startTime |-> 0, endTime |-> 1, id |-> 0,
       customerName |-> John] :
        d \in Dates }

\* Queries of getAvailableSlots.
AvailableSlotsInputs ==
    { [itemId |-> i, bookingDate |-> d] : i \in {"room", "hall"}, d \in Dates }
    \cup { [itemId |-> i, bookingDate |-> 0] : i \in {"coffee", "ghost"} }

\* Rule ids softDeleteAvailability is called with in the slot scenarios:
\* the SUN window of the room, and an id no rule has.
SoftDeleteIds == {1, 5}

\* Inputs of createAvailability: proper, empty and reversed windows for
\* the bookable item, one window for the other two ids.
CreateAvailabilityInputs ==
    { [itemId |-> "room", dayOfWeek |-> "SUN", startTime |-> iv[1], endTime |-> iv[2]] :
        iv \in { <<0, MaxTime>>, <<1, 2>>, <<1, 1>>, <<2, 1>> } }
    \cup
    { [itemId |-> i, dayOfWeek |-> "SUN", startTime |-> 0, endTime |-> 1] :
        i \in {"coffee", "ghost"} }

\* Inputs of updateAvailability: startTime alone, endTime alone, both (a
\* proper and a reversed pair), isActive alone, dayOfWeek alone.
UpdateAvailabilityInputs ==
    { [startTime |-> s] : s \in Times }
    \cup { [endTime |-> e] : e \in Times }
    \cup { [startTime |-> 1, endTime |-> 2], [startTime |-> 2, endTime |-> 1] }
    \cup { [isActive |-> FALSE], [isActive |-> TRUE], [dayOfWeek |-> "MON"] }

VARIABLES
    tzOffset,        \* UTC offset, in hours, of the zone the process runs in
    items,           \* item store: id -> item document
    availabilities,  \* availability rule store: set of rule documents
    bookings,        \* booking store: sequence of documents, bookings[i].id = i
    pc,              \* per call: the await it is about to perform
    op,              \* per call: the service function running
    req,             \* per call: the argument (CreateBookingDto or id)
    txn,             \* per call: state of its session's transaction
    pending,         \* per call: document written inside the open transaction
    conflict,        \* per call: _id returned by findConflictingBookingDao, 0 for null
    result,          \* per call: "ok" or the error thrown
    returned,        \* per call: the value returned
    dayAvail,        \* per call: dayAvailabilities held by getAvailableSlots
    session          \* per call: what the call has invoked on its session, in order

vars == <<tzOffset, items, availabilities, bookings, pc, op, req, txn, pending,
          conflict, result, returned, dayAvail, session>>

stores == <<tzOffset, items, availabilities>>

\* ----------------------------------------------------------- pure helpers

\* new Date("YYYY-MM-DD"): a date-only ISO string is parsed as UTC midnight.
NewDate(d) == d * 24

\* Date.prototype.getDay(): weekday index of the instant in the local zone.
getDay(date) == ((date + tzOffset) \div 24) % 7

getDayOfWeekFromDate(date) == days[getDay(date) + 1]

\* ItemModel.findById(id): the stored document, or null.
NullItem == [isBookable |-> FALSE, isNull |-> TRUE]

findItemById(id) ==
    IF id \in DOMAIN items THEN [isBookable |-> items[id].isBookable, isNull |-> FALSE]
    ELSE NullItem

findAvailabilitiesByItemIdDao(itemId) ==
    { av \in availabilities : av.itemId = itemId /\ av.isActive }

dayAvailabilities(data) ==
    { av \in findAvailabilitiesByItemIdDao(data.itemId) :
        av.dayOfWeek = getDayOfWeekFromDate(NewDate(data.bookingDate)) /\ av.isActive }

isWithinAvailability(data) ==
    \E av \in dayAvailabilities(data) :
        data.startTime >= av.startTime /\ data.endTime <= av.endTime

\* The $or without its third clause (new booking contains the existing one).
ConflictClausesNoContain(b, startTime, endTime) ==
    \/ (b.startTime <= startTime /\ b.endTime > startTime)
    \/ (b.startTime < endTime /\ b.endTime >= endTime)

\* The $or with $gte in place of $gt in its first clause.
ConflictClausesClosed(b, startTime, endTime) ==
    \/ (b.startTime <= startTime /\ b.endTime >= startTime)
    \/ (b.startTime < endTime /\ b.endTime >= endTime)
    \/ (b.startTime >= startTime /\ b.endTime <= endTime)

\* The $or of findConflictingBookingDao, for one stored document b.
ConflictClauses(b, startTime, endTime) ==
    \/ (b.startTime <= startTime /\ b.endTime > startTime)
    \/ (b.startTime < endTime /\ b.endTime >= endTime)
    \/ (b.startTime >= startTime /\ b.endTime <= endTime)

\* The query without its bookingDate filter.
findConflictingBookingDaoAnyDate(itemId, bookingDate, startTime, endTime) ==
    { i \in DOMAIN bookings :
        /\ bookings[i].itemId = itemId
        /\ bookings[i].status = CONFIRMED
        /\ ConflictClauses(bookings[i], startTime, endTime) }

\* The query without its status filter.
findConflictingBookingDaoAnyStatus(itemId, bookingDate, startTime, endTime) ==
    { i \in DOMAIN bookings :
        /\ bookings[i].itemId = itemId
        /\ bookings[i].bookingDate = bookingDate
        /\ ConflictClauses(bookings[i], startTime, endTime) }

\* _ids of the committed documents the query of findConflictingBookingDao matches.
findConflictingBookingDao(itemId, bookingDate, startTime, endTime) ==
    { i \in DOMAIN bookings :
        /\ bookings[i].itemId = itemId
        /\ bookings[i].bookingDate = bookingDate
        /\ bookings[i].status = CONFIRMED
        /\ ConflictClauses(bookings[i], startTime, endTime) }

\* createBookingSchema of the HTTP route: the startTime < endTime refinement.
createBookingSchema(data) == data.startTime < data.endTime

\* The hook with > in place of >=: an empty interval passes.
preSaveAllowsEmpty(doc) == ~(doc.startTime > doc.endTime)

\* Booking pre-save hook.
preSave(doc) == ~(doc.startTime >= doc.endTime)

\* String.prototype.trim(), the setter of a schema path with trim: true.
RECURSIVE trimStart(_)
trimStart(s) == IF s # <<>> /\ Head(s) = " " THEN trimStart(Tail(s)) ELSE s

RECURSIVE trimEnd(_)
trimEnd(s) ==
    IF s # <<>> /\ s[Len(s)] = " " THEN trimEnd(SubSeq(s, 1, Len(s) - 1)) ELSE s

trim(s) == trimEnd(trimStart(s))

\* The optional paths of a booking; an undefined one is left out of the
\* data passed to BookingModel.create.
OptionalPaths == {"customerEmail", "customerPhone"}

\* A document whose customer fields are stored as they were sent.
NewBookingNoTrim(data) ==
    [id |-> 0, itemId |-> data.itemId, bookingDate |-> NewDate(data.bookingDate),
     startTime |-> data.startTime, endTime |-> data.endTime, status |-> CONFIRMED,
     customerName |-> data.customerName]
    @@ [f \in OptionalPaths \cap DOMAIN data |-> data[f]]

\* The document BookingModel.create builds: status defaults to CONFIRMED,
\* the customer fields are trimmed.  Its _id is written as the position
\* the document takes in the store.
NewBooking(data) ==
    [id |-> 0, itemId |-> data.itemId, bookingDate |-> NewDate(data.bookingDate),
     startTime |-> data.startTime, endTime |-> data.endTime, status |-> CONFIRMED,
     customerName |-> trim(data.customerName)]
    @@ [f \in OptionalPaths \cap DOMAIN data |-> trim(data[f])]

\* Validation of the required paths before save: a required string must
\* not be empty.
validateRequired(doc) == doc.customerName # <<>>

\* The errors the services throw as AppError, with their statusCode.
AppErrors ==
    [NotFound |-> 404, NotBookable |-> 400, OutsideAvailability |-> 400,
     SlotConflict |-> 409, AlreadyCancelled |-> 400, ValidationError |-> 400,
     BadTimeRange |-> 400]

\* The global error handler: an AppError keeps its statusCode, any other
\* error (a driver error, the Error of a pre-save hook) is answered with 500.
statusCode(err) == IF err \in DOMAIN AppErrors THEN AppErrors[err] ELSE 500

Invoked(log, method) == \E i \in DOMAIN log : log[i] = method

\* session.inTransaction(): a transaction has been started and neither
\* commitTransaction nor abortTransaction has been invoked on it.
inTransaction(log) ==
    /\ Invoked(log, "startTransaction")
    /\ ~Invoked(log, "commitTransaction")
    /\ ~Invoked(log, "abortTransaction")

\* The catch block without its inTransaction() guard.
CatchBlockNoGuard(log) == log \o <<"abortTransaction", "endSession">>

\* The catch block of createBooking, up to its rethrow.
CatchBlock(log) ==
    IF inTransaction(log)
    THEN log \o <<"abortTransaction", "endSession">>
    ELSE log \o <<"endSession">>

Running(c) == pc[c] \notin {"idle", "done"}

\* A finished call keeps its outcome until Return; requests are issued when
\* no outcome is waiting to be picked up.  Return touches nothing a running
\* call reads, so this order loses no interleaving of the running calls.
Delivered == \A k \in Calls : pc[k] # "done"

\* ---------------------------------------------------------------- Init

Init ==
    /\ tzOffset \in TzOffsets
    /\ items = Catalog
    /\ availabilities \in RuleConfigs
    /\ bookings = <<>>
    /\ pc = [c \in Calls |-> "idle"]
    /\ op = [c \in Calls |-> "none"]
    /\ req = [c \in Calls |-> NoReq]
    /\ txn = [c \in Calls |-> "none"]
    /\ pending = [c \in Calls |-> NoBooking]
    /\ conflict = [c \in Calls |-> 0]
    /\ result = [c \in Calls |-> "none"]
    /\ returned = [c \in Calls |-> NoBooking]
    /\ dayAvail = [c \in Calls |-> <<>>]
    /\ session = [c \in Calls |-> <<>>]

\* A call ends: the error is thrown or the value returned.
Finish(c, res, t, ret) ==
    /\ pc' = [pc EXCEPT ![c] = "done"]
    /\ result' = [result EXCEPT ![c] = res]
    /\ txn' = [txn EXCEPT ![c] = t]
    /\ returned' = [returned EXCEPT ![c] = ret]
    /\ pending' = [pending EXCEPT ![c] = NoBooking]

\* ------------------------------------------------------- createBooking

\* The service function is called (as the tests do, with any argument).
CallCreateBooking(c, data) ==
    /\ pc[c] = "idle"
    /\ Delivered
    /\ Len(bookings) + Cardinality({k \in Calls : op[k] = "createBooking" /\ Running(k)}) < MaxBookings
    /\ pc' = [pc EXCEPT ![c] = "findItem"]
    /\ op' = [op EXCEPT ![c] = "createBooking"]
    /\ req' = [req EXCEPT ![c] = data]
    /\ UNCHANGED <<stores, dayAvail, session, bookings, txn, pending, conflict, result, returned>>

\* POST /createBooking: validateRequest(createBookingSchema) runs first and
\* the handler calls the service only with a body that passed it.
PostCreateBooking(c, data) ==
    /\ pc[c] = "idle"
    /\ Delivered
    /\ IF createBookingSchema(data)
       THEN CallCreateBooking(c, data)
       ELSE /\ op' = [op EXCEPT ![c] = "createBooking"]
            /\ req' = [req EXCEPT ![c] = data]
            /\ Finish(c, "ValidationError", "none", NoBooking)
            /\ UNCHANGED <<stores, dayAvail, session, bookings, conflict>>

\* await findItemByIdDao(data.itemId); the isBookable test.
FindItem(c) ==
    /\ pc[c] = "findItem"
    /\ LET item == findItemById(req[c].itemId) IN
       IF item.isNull
       THEN Finish(c, "NotFound", "none", NoBooking)
       ELSE IF ~item.isBookable
       THEN Finish(c, "NotBookable", "none", NoBooking)
       ELSE /\ pc' = [pc EXCEPT ![c] = "findAvailabilities"]
            /\ UNCHANGED <<txn, pending, result, returned>>
    /\ UNCHANGED <<stores, dayAvail, session, bookings, op, req, conflict>>

\* await findAvailabilitiesByItemIdDao; the filter and the some() test.
FindAvailabilities(c) ==
    /\ pc[c] = "findAvailabilities"
    /\ IF ~isWithinAvailability(req[c])
       THEN Finish(c, "OutsideAvailability", "none", NoBooking)
       ELSE /\ pc' = [pc EXCEPT ![c] = "startSession"]
            /\ UNCHANGED <<txn, pending, result, returned>>
    /\ UNCHANGED <<stores, dayAvail, session, bookings, op, req, conflict>>

\* await mongoose.startSession(); session.startTransaction().
StartSession(c) ==
    /\ pc[c] = "startSession"
    /\ pc' = [pc EXCEPT ![c] = "findConflict"]
    /\ txn' = [txn EXCEPT ![c] = "active"]
    /\ session' = [session EXCEPT ![c] = <<"startSession", "startTransaction">>]
    /\ UNCHANGED <<stores, dayAvail, bookings, op, req, pending, conflict, result, returned>>

\* await findConflictingBookingDao(..., session).  The query reads the
\* committed documents: a document another open transaction has written is
\* not visible before that transaction commits, and reading takes no lock.
FindConflict(c) ==
    /\ pc[c] = "findConflict"
    /\ LET found == findConflictingBookingDao(req[c].itemId, NewDate(req[c].bookingDate),
                                              req[c].startTime, req[c].endTime) IN
       IF found # {}
       THEN /\ \E i \in found : conflict' = [conflict EXCEPT ![c] = i]
            /\ session' = [session EXCEPT ![c] =
                              CatchBlock(@ \o <<"abortTransaction", "endSession">>)]
            /\ Finish(c, "SlotConflict", "aborted", NoBooking)
       ELSE /\ pc' = [pc EXCEPT ![c] = "createBookingDao"]
            /\ conflict' = [conflict EXCEPT ![c] = 0]
            /\ UNCHANGED <<txn, pending, result, returned, session>>
    /\ UNCHANGED <<stores, dayAvail, bookings, op, req>>

\* await createBookingDao(..., session): validation, the pre-save hook, then the insert,
\* which stays inside the transaction until it commits.
CreateBookingDao(c) ==
    /\ pc[c] = "createBookingDao"
    /\ LET doc == NewBooking(req[c]) IN
       IF ~validateRequired(doc)
       THEN /\ session' = [session EXCEPT ![c] = CatchBlock(@)]
            /\ Finish(c, "InvalidDocument", "aborted", NoBooking)
       ELSE IF ~preSave(doc)
       THEN /\ session' = [session EXCEPT ![c] = CatchBlock(@)]
            /\ Finish(c, "InvalidRange", "aborted", NoBooking)
       ELSE /\ pc' = [pc EXCEPT ![c] = "commit"]
            /\ pending' = [pending EXCEPT ![c] = doc]
            /\ session' = [session EXCEPT ![c] = Append(@, "create")]
            /\ UNCHANGED <<txn, result, returned>>
    /\ UNCHANGED <<stores, dayAvail, bookings, op, req, conflict>>

\* await session.commitTransaction(): the pending insert becomes visible.
CommitTransaction(c) ==
    /\ pc[c] = "commit"
    /\ LET booking == [pending[c] EXCEPT !.id = Len(bookings) + 1] IN
        /\ bookings' = Append(bookings, booking)
        /\ Finish(c, "ok", "committed", booking)
    /\ session' = [session EXCEPT ![c] = @ \o <<"commitTransaction", "endSession">>]
    /\ UNCHANGED <<stores, dayAvail, op, req, conflict>>

\* A catch block that reports every failure of the atomic phase as the
\* conflict error.
StorageFailsAsConflict(c) ==
    /\ pc[c] \in {"findConflict", "createBookingDao", "commit"}
    /\ Finish(c, "SlotConflict", "aborted", NoBooking)
    /\ session' = [session EXCEPT ![c] =
                      CatchBlock(IF pc[c] = "commit" THEN Append(@, "commitTransaction") ELSE @)]
    /\ UNCHANGED <<stores, dayAvail, bookings, op, req, conflict>>

\* A failure after which the insert of the failed call stays in the store.
StorageFailsNoRollback(c) ==
    /\ pc[c] \in {"findConflict", "createBookingDao", "commit"}
    /\ bookings' = IF pc[c] = "commit"
                   THEN Append(bookings, [pending[c] EXCEPT !.id = Len(bookings) + 1])
                   ELSE bookings
    /\ Finish(c, "StorageError", "aborted", NoBooking)
    /\ session' = [session EXCEPT ![c] =
                      CatchBlock(IF pc[c] = "commit" THEN Append(@, "commitTransaction") ELSE @)]
    /\ UNCHANGED <<stores, dayAvail, op, req, conflict>>

\* The storage backend fails an operation of the transaction (the failed
\* operation has no effect); the catch block aborts the transaction when
\* the session still reports one, ends the session and rethrows.  After
\* commitTransaction has been invoked the session reports none, and the
\* uncommitted transaction is discarded with the session.
StorageFails(c) ==
    /\ pc[c] \in {"findConflict", "createBookingDao", "commit"}
    /\ Finish(c, "StorageError", "aborted", NoBooking)
    /\ session' = [session EXCEPT ![c] =
                      CatchBlock(IF pc[c] = "commit" THEN Append(@, "commitTransaction") ELSE @)]
    /\ UNCHANGED <<stores, dayAvail, bookings, op, req, conflict>>

\* ------------------------------------------------------- cancelBooking

CallCancelBooking(c, id) ==
    /\ pc[c] = "idle"
    /\ Delivered
    /\ pc' = [pc EXCEPT ![c] = "findBooking"]
    /\ op' = [op EXCEPT ![c] = "cancelBooking"]
    /\ req' = [req EXCEPT ![c] = [NoReq EXCEPT !.id = id]]
    /\ UNCHANGED <<stores, dayAvail, session, bookings, txn, pending, conflict, result, returned>>

\* cancelBooking without its test of the status read.
FindBookingNoStatusTest(c) ==
    /\ pc[c] = "findBooking"
    /\ IF req[c].id \notin DOMAIN bookings
       THEN Finish(c, "NotFound", "none", NoBooking)
       ELSE /\ pc' = [pc EXCEPT ![c] = "updateStatus"]
            /\ UNCHANGED <<txn, pending, result, returned>>
    /\ UNCHANGED <<stores, dayAvail, session, bookings, op, req, conflict>>

\* await findBookingById(id); the status test.
FindBooking(c) ==
    /\ pc[c] = "findBooking"
    /\ IF req[c].id \notin DOMAIN bookings
       THEN Finish(c, "NotFound", "none", NoBooking)
       ELSE IF bookings[req[c].id].status = CANCELLED
       THEN Finish(c, "AlreadyCancelled", "none", NoBooking)
       ELSE /\ pc' = [pc EXCEPT ![c] = "updateStatus"]
            /\ UNCHANGED <<txn, pending, result, returned>>
    /\ UNCHANGED <<stores, dayAvail, session, bookings, op, req, conflict>>

\* An update that flips the status it finds instead of setting CANCELLED.
UpdateBookingStatusFlips(c) ==
    /\ pc[c] = "updateStatus"
    /\ req[c].id \in DOMAIN bookings
    /\ bookings' = [bookings EXCEPT ![req[c].id].status =
                        IF @ = CONFIRMED THEN CANCELLED ELSE CONFIRMED]
    /\ Finish(c, "ok", "none", bookings'[req[c].id])
    /\ UNCHANGED <<stores, dayAvail, session, op, req, conflict>>

\* await updateBookingStatusDao(id, CANCELLED): findByIdAndUpdate.
UpdateBookingStatus(c) ==
    /\ pc[c] = "updateStatus"
    /\ IF req[c].id \notin DOMAIN bookings
       THEN /\ Finish(c, "NotFound", "none", NoBooking)
            /\ UNCHANGED bookings
       ELSE /\ bookings' = [bookings EXCEPT ![req[c].id].status = CANCELLED]
            /\ Finish(c, "ok", "none", bookings'[req[c].id])
    /\ UNCHANGED <<stores, dayAvail, session, op, req, conflict>>

\* --------------------------------------------------- getAvailableSlots

\* .sort({ startTime: 1 }): the documents of S in ascending startTime order
\* (the order of documents with equal startTime is the store's).
SortByStartTime(S) ==
    CHOOSE s \in [1..Cardinality(S) -> S] :
        /\ \A x \in S : \E i \in DOMAIN s : s[i] = x
        /\ \A i, j \in DOMAIN s : i < j => s[i].startTime <= s[j].startTime

\* The rules the call keeps for the day: find sorted, then the filter.
dayAvailabilitiesSorted(data) == SortByStartTime(dayAvailabilities(data))

findBookingsByItemAndDateDao(itemId, bookingDate) ==
    SortByStartTime({ b \in { bookings[i] : i \in DOMAIN bookings } :
                        /\ b.itemId = itemId
                        /\ b.bookingDate = bookingDate
                        /\ b.status = CONFIRMED })

\* The startTime and endTime of each document of a list.
TimesOf(s) == [i \in DOMAIN s |-> [startTime |-> s[i].startTime, endTime |-> s[i].endTime]]

\* The test reduced to its third clause: only a booking that contains the
\* whole window counts.
hasConflictWithContainOnly(av, b) ==
    b.startTime <= av.startTime /\ b.endTime >= av.endTime

\* The test with >= in place of > in its second clause: a booking that
\* ends where the window starts counts.
hasConflictWithClosed(av, b) ==
    \/ (b.startTime >= av.startTime /\ b.startTime < av.endTime)
    \/ (b.endTime >= av.startTime /\ b.endTime <= av.endTime)
    \/ (b.startTime <= av.startTime /\ b.endTime >= av.endTime)

\* The test of calculateAvailableSlots for one window and one booking.
hasConflictWith(av, b) ==
    \/ (b.startTime >= av.startTime /\ b.startTime < av.endTime)
    \/ (b.endTime > av.startTime /\ b.endTime <= av.endTime)
    \/ (b.startTime <= av.startTime /\ b.endTime >= av.endTime)

calculateAvailableSlots(avs, bks) ==
    TimesOf(SelectSeq(avs, LAMBDA av : ~\E i \in DOMAIN bks : hasConflictWith(av, bks[i])))

AvailableSlotsResponse(data, rules, booked, available) ==
    [itemId |-> data.itemId, date |-> data.bookingDate,
     dayOfWeek |-> getDayOfWeekFromDate(NewDate(data.bookingDate)),
     availabilityRules |-> rules, bookedSlots |-> booked, availableSlots |-> available]

CallGetAvailableSlots(c, data) ==
    /\ pc[c] = "idle"
    /\ Delivered
    /\ pc' = [pc EXCEPT ![c] = "slotsFindItem"]
    /\ op' = [op EXCEPT ![c] = "getAvailableSlots"]
    /\ req' = [req EXCEPT ![c] = data]
    /\ UNCHANGED <<stores, dayAvail, session, bookings, txn, pending, conflict, result, returned>>

\* await findItemByIdDao(itemId); the isBookable test.
SlotsFindItem(c) ==
    /\ pc[c] = "slotsFindItem"
    /\ LET item == findItemById(req[c].itemId) IN
       IF item.isNull
       THEN Finish(c, "NotFound", "none", NoBooking)
       ELSE IF ~item.isBookable
       THEN Finish(c, "NotBookable", "none", NoBooking)
       ELSE /\ pc' = [pc EXCEPT ![c] = "slotsFindAvailabilities"]
            /\ UNCHANGED <<txn, pending, result, returned>>
    /\ UNCHANGED <<stores, dayAvail, session, bookings, op, req, conflict>>

\* await findAvailabilitiesByItemIdDao(itemId); the filter; the all-empty
\* answer when no rule is left.
SlotsFindAvailabilities(c) ==
    /\ pc[c] = "slotsFindAvailabilities"
    /\ LET avs == dayAvailabilitiesSorted(req[c]) IN
       IF Len(avs) = 0
       THEN /\ Finish(c, "ok", "none", AvailableSlotsResponse(req[c], <<>>, <<>>, <<>>))
            /\ UNCHANGED dayAvail
       ELSE /\ pc' = [pc EXCEPT ![c] = "slotsFindBookings"]
            /\ dayAvail' = [dayAvail EXCEPT ![c] = avs]
            /\ UNCHANGED <<txn, pending, result, returned>>
    /\ UNCHANGED <<stores, session, bookings, op, req, conflict>>

\* await findBookingsByItemAndDateDao(itemId, date); the response.
SlotsFindBookings(c) ==
    /\ pc[c] = "slotsFindBookings"
    /\ LET bks == findBookingsByItemAndDateDao(req[c].itemId, NewDate(req[c].bookingDate)) IN
       Finish(c, "ok", "none",
              AvailableSlotsResponse(req[c], TimesOf(dayAvail[c]), TimesOf(bks),
                                     calculateAvailableSlots(dayAvail[c], bks)))
    /\ dayAvail' = [dayAvail EXCEPT ![c] = <<>>]
    /\ UNCHANGED <<stores, session, bookings, op, req, conflict>>

\* ------------------------------------------------- availability rules

\* Availability pre-save hook.
availabilityPreSave(doc) == ~(doc.startTime >= doc.endTime)

\* AvailabilityModel.findById(id): the stored rules with that id.
findAvailabilityById(id) == { av \in availabilities : av.id = id }

\* The time checks of updateAvailability, against the rule it has read.
\* A field the caller leaves out is not in the domain of data.
updateTimesValid(existing, data) ==
    LET hasStart == "startTime" \in DOMAIN data
        hasEnd == "endTime" \in DOMAIN data
    IN /\ (hasStart /\ hasEnd) => ~(data.startTime >= data.endTime)
       /\ (hasStart /\ ~hasEnd) => ~(data.startTime >= existing.endTime)
       /\ (hasEnd /\ ~hasStart) => ~(existing.startTime >= data.endTime)

\* { $set: data }: the fields of data replace those of the document.
SetFields(doc, data) ==
    [f \in DOMAIN doc |-> IF f \in DOMAIN data THEN data[f] ELSE doc[f]]

CallCreateAvailability(c, data) ==
    /\ pc[c] = "idle"
    /\ Delivered
    /\ Cardinality(availabilities)
         + Cardinality({k \in Calls : op[k] = "createAvailability" /\ Running(k)}) < MaxRules
    /\ pc' = [pc EXCEPT ![c] = "avFindItem"]
    /\ op' = [op EXCEPT ![c] = "createAvailability"]
    /\ req' = [req EXCEPT ![c] = [data |-> data]]
    /\ UNCHANGED <<stores, dayAvail, session, bookings, txn, pending, conflict, result, returned>>

\* createAvailability without its isBookable test.
CreateAvailabilityFindItemNoBookableTest(c) ==
    /\ pc[c] = "avFindItem"
    /\ LET item == findItemById(req[c].data.itemId) IN
       IF item.isNull
       THEN Finish(c, "NotFound", "none", NoBooking)
       ELSE /\ pc' = [pc EXCEPT ![c] = "createAvailabilityDao"]
            /\ UNCHANGED <<txn, pending, result, returned>>
    /\ UNCHANGED <<stores, dayAvail, session, bookings, op, req, conflict>>

\* await findItemByIdDao(data.itemId); the isBookable test.
CreateAvailabilityFindItem(c) ==
    /\ pc[c] = "avFindItem"
    /\ LET item == findItemById(req[c].data.itemId) IN
       IF item.isNull
       THEN Finish(c, "NotFound", "none", NoBooking)
       ELSE IF ~item.isBookable
       THEN Finish(c, "NotBookable", "none", NoBooking)
       ELSE /\ pc' = [pc EXCEPT ![c] = "createAvailabilityDao"]
            /\ UNCHANGED <<txn, pending, result, returned>>
    /\ UNCHANGED <<stores, dayAvail, session, bookings, op, req, conflict>>

\* await createAvailabilityDao(data): AvailabilityModel.create runs the
\* pre-save hook and inserts; isActive defaults to true.
CreateAvailabilityDao(c) ==
    /\ pc[c] = "createAvailabilityDao"
    /\ LET data == req[c].data
           doc == Rule(Cardinality(availabilities) + 1, data.itemId, data.dayOfWeek,
                       data.startTime, data.endTime, TRUE)
       IN IF ~availabilityPreSave(doc)
          THEN /\ Finish(c, "InvalidRange", "none", NoBooking)
               /\ UNCHANGED availabilities
          ELSE /\ availabilities' = availabilities \cup {doc}
               /\ Finish(c, "ok", "none", doc)
    /\ UNCHANGED <<tzOffset, items, dayAvail, session, bookings, op, req, conflict>>

CallUpdateAvailability(c, id, data) ==
    /\ pc[c] = "idle"
    /\ Delivered
    /\ pc' = [pc EXCEPT ![c] = "avFindForUpdate"]
    /\ op' = [op EXCEPT ![c] = "updateAvailability"]
    /\ req' = [req EXCEPT ![c] = [id |-> id, data |-> data]]
    /\ UNCHANGED <<stores, dayAvail, session, bookings, txn, pending, conflict, result, returned>>

\* await findAvailabilityById(id); the checks of the time range.
FindAvailabilityForUpdate(c) ==
    /\ pc[c] = "avFindForUpdate"
    /\ LET found == findAvailabilityById(req[c].id) IN
       IF found = {}
       THEN Finish(c, "NotFound", "none", NoBooking)
       ELSE IF \E existing \in found : ~updateTimesValid(existing, req[c].data)
       THEN Finish(c, "BadTimeRange", "none", NoBooking)
       ELSE /\ pc' = [pc EXCEPT ![c] = "updateAvailabilityDao"]
            /\ UNCHANGED <<txn, pending, result, returned>>
    /\ UNCHANGED <<stores, dayAvail, session, bookings, op, req, conflict>>

\* await updateAvailabilityDao(id, data): findByIdAndUpdate with $set; the
\* update validators look at each set path alone and no hook runs.
UpdateAvailabilityDao(c) ==
    /\ pc[c] = "updateAvailabilityDao"
    /\ LET found == findAvailabilityById(req[c].id) IN
       IF found = {}
       THEN /\ Finish(c, "NotFound", "none", NoBooking)
            /\ UNCHANGED availabilities
       ELSE \E old \in found :
            LET updated == SetFields(old, req[c].data) IN
            /\ availabilities' = (availabilities \ {old}) \cup {updated}
            /\ Finish(c, "ok", "none", updated)
    /\ UNCHANGED <<tzOffset, items, dayAvail, session, bookings, op, req, conflict>>

CallSoftDeleteAvailability(c, id) ==
    /\ pc[c] = "idle"
    /\ Delivered
    /\ pc' = [pc EXCEPT ![c] = "avFindForDelete"]
    /\ op' = [op EXCEPT ![c] = "softDeleteAvailability"]
    /\ req' = [req EXCEPT ![c] = [id |-> id]]
    /\ UNCHANGED <<stores, dayAvail, session, bookings, txn, pending, conflict, result, returned>>

\* await findAvailabilityById(id).
FindAvailabilityForDelete(c) ==
    /\ pc[c] = "avFindForDelete"
    /\ IF findAvailabilityById(req[c].id) = {}
       THEN Finish(c, "NotFound", "none", NoBooking)
       ELSE /\ pc' = [pc EXCEPT ![c] = "softDeleteAvailabilityDao"]
            /\ UNCHANGED <<txn, pending, result, returned>>
    /\ UNCHANGED <<stores, dayAvail, session, bookings, op, req, conflict>>

\* await softDeleteAvailabilityDao(id): findByIdAndUpdate { isActive: false }.
SoftDeleteAvailabilityDao(c) ==
    /\ pc[c] = "softDeleteAvailabilityDao"
    /\ LET found == findAvailabilityById(req[c].id) IN
       IF found = {}
       THEN /\ Finish(c, "NotFound", "none", NoBooking)
            /\ UNCHANGED availabilities
       ELSE \E old \in found :
            /\ availabilities' = (availabilities \ {old}) \cup {[old EXCEPT !.isActive = FALSE]}
            /\ Finish(c, "ok", "none", NoBooking)
    /\ UNCHANGED <<tzOffset, items, dayAvail, session, bookings, op, req, conflict>>

\* ---------------------------------------------------- getBookingById

\* .populate('itemId'): the itemId of the document read is replaced by the
\* Item document it refers to (null when no such item is stored).
populate(b) ==
    [b EXCEPT !.itemId =
        IF @ \in DOMAIN items
        THEN [_id |-> @, isBookable |-> items[@].isBookable]
        ELSE [_id |-> "null", isBookable |-> FALSE]]

\* GET /getBookingById/:id.  The caller may hold the id a createBooking
\* has just returned, so the request is not held back by a waiting outcome.
CallGetBooking(c, id) ==
    /\ pc[c] = "idle"
    /\ pc' = [pc EXCEPT ![c] = "findBookingById"]
    /\ op' = [op EXCEPT ![c] = "getBooking"]
    /\ req' = [req EXCEPT ![c] = [NoReq EXCEPT !.id = id]]
    /\ UNCHANGED <<stores, dayAvail, session, bookings, txn, pending, conflict, result, returned>>

\* await findBookingById(id): findById, populate, lean; the response.
FindBookingById(c) ==
    /\ pc[c] = "findBookingById"
    /\ IF req[c].id \notin DOMAIN bookings
       THEN Finish(c, "NotFound", "none", NoBooking)
       ELSE Finish(c, "ok", "none", populate(bookings[req[c].id]))
    /\ UNCHANGED <<stores, dayAvail, session, bookings, op, req, conflict>>

\* The caller has received the outcome; the slot takes the next request.
Return(c) ==
    /\ pc[c] = "done"
    /\ pc' = [pc EXCEPT ![c] = "idle"]
    /\ op' = [op EXCEPT ![c] = "none"]
    /\ req' = [req EXCEPT ![c] = NoReq]
    /\ txn' = [txn EXCEPT ![c] = "none"]
    /\ conflict' = [conflict EXCEPT ![c] = 0]
    /\ result' = [result EXCEPT ![c] = "none"]
    /\ returned' = [returned EXCEPT ![c] = NoBooking]
    /\ session' = [session EXCEPT ![c] = <<>>]
    /\ UNCHANGED <<stores, dayAvail, bookings, pending>>

Next ==
    \E c \in Calls :
        \/ \E data \in CreateBookingInputs : CallCreateBooking(c, data)
        \/ \E data \in CreateBookingInputs : PostCreateBooking(c, data)
        \/ FindItem(c)
        \/ FindAvailabilities(c)
        \/ StartSession(c)
        \/ FindConflict(c)
        \/ CreateBookingDao(c)
        \/ CommitTransaction(c)
        \/ StorageFails(c)
        \/ \E id \in 1..(Len(bookings) + 1) : CallCancelBooking(c, id)
        \/ FindBooking(c)
        \/ UpdateBookingStatus(c)
        \/ Return(c)

Spec == Init /\ [][Next]_vars

\* Two bookable items with their rules in place.
InitSlots ==
    /\ tzOffset \in TzOffsets
    /\ items = CatalogTwo
    /\ availabilities = SlotRules
    /\ bookings = <<>>
    /\ pc = [c \in Calls |-> "idle"]
    /\ op = [c \in Calls |-> "none"]
    /\ req = [c \in Calls |-> NoReq]
    /\ txn = [c \in Calls |-> "none"]
    /\ pending = [c \in Calls |-> NoBooking]
    /\ conflict = [c \in Calls |-> 0]
    /\ result = [c \in Calls |-> "none"]
    /\ returned = [c \in Calls |-> NoBooking]
    /\ dayAvail = [c \in Calls |-> <<>>]
    /\ session = [c \in Calls |-> <<>>]

\* The steps of every call of the booking service.
BookingSteps(c) ==
    \/ FindItem(c)
    \/ FindAvailabilities(c)
    \/ StartSession(c)
    \/ FindConflict(c)
    \/ CreateBookingDao(c)
    \/ CommitTransaction(c)
    \/ StorageFails(c)
    \/ FindBooking(c)
    \/ UpdateBookingStatus(c)
    \/ Return(c)

\* Bookings, cancellations and a rule deactivation while slots are queried.
NextSlots ==
    \E c \in Calls :
        \/ \E data \in KeyBookingInputs : CallCreateBooking(c, data)
        \/ \E id \in 1..(Len(bookings) + 1) : CallCancelBooking(c, id)
        \/ \E data \in AvailableSlotsInputs : CallGetAvailableSlots(c, data)
        \/ \E id \in SoftDeleteIds : CallSoftDeleteAvailability(c, id)
        \/ BookingSteps(c)
        \/ SlotsFindItem(c)
        \/ SlotsFindAvailabilities(c)
        \/ SlotsFindBookings(c)
        \/ FindAvailabilityForDelete(c)
        \/ SoftDeleteAvailabilityDao(c)

SpecSlots == InitSlots /\ [][NextSlots]_vars

\* Bookings and cancellations on several items and dates.
NextKeys ==
    \E c \in Calls :
        \/ \E data \in KeyBookingInputs : CallCreateBooking(c, data)
        \/ \E id \in 1..(Len(bookings) + 1) : CallCancelBooking(c, id)
        \/ BookingSteps(c)

SpecKeys == InitSlots /\ [][NextKeys]_vars

\* The administration of the rules of an item, from an empty rule store.
InitRules ==
    /\ tzOffset = 0
    /\ items = Catalog
    /\ availabilities = {}
    /\ bookings = <<>>
    /\ pc = [c \in Calls |-> "idle"]
    /\ op = [c \in Calls |-> "none"]
    /\ req = [c \in Calls |-> NoReq]
    /\ txn = [c \in Calls |-> "none"]
    /\ pending = [c \in Calls |-> NoBooking]
    /\ conflict = [c \in Calls |-> 0]
    /\ result = [c \in Calls |-> "none"]
    /\ returned = [c \in Calls |-> NoBooking]
    /\ dayAvail = [c \in Calls |-> <<>>]
    /\ session = [c \in Calls |-> <<>>]

NextRules ==
    \E c \in Calls :
        \/ \E data \in CreateAvailabilityInputs : CallCreateAvailability(c, data)
        \/ CreateAvailabilityFindItem(c)
        \/ CreateAvailabilityDao(c)
        \/ \E id \in 1..(Cardinality(availabilities) + 1), data \in UpdateAvailabilityInputs :
              CallUpdateAvailability(c, id, data)
        \/ FindAvailabilityForUpdate(c)
        \/ UpdateAvailabilityDao(c)
        \/ \E id \in 1..(Cardinality(availabilities) + 1) : CallSoftDeleteAvailability(c, id)
        \/ FindAvailabilityForDelete(c)
        \/ SoftDeleteAvailabilityDao(c)
        \/ Return(c)

SpecRules == InitRules /\ [][NextRules]_vars

\* Customer fields a caller sends: a plain name; a padded name with a
\* padded phone; a name with an inner blank, an email and a phone; a name
\* of one blank.
Customers ==
    { [customerName |-> John],
      [customerName |-> <<" ", "J", " ">>, customerPhone |-> <<" ", "5">>],
      [customerName |-> <<"J", " ", "D">>, customerEmail |-> <<"j", "@", "d">>,
       customerPhone |-> <<"5">>],
      [customerName |-> <<" ">>] }

\* Requests for one item and date, with the customer fields varied.
CustomerBookingInputs ==
    { [itemId |-> "room", bookingDate |-> 0, startTime |-> iv[1], endTime |-> iv[2],
       id |-> 0] @@ cu :
        iv \in { <<0, 1>>, <<1, 2>> }, cu \in Customers }

\* One item with its rules in place, in a process running at UTC.
InitGet ==
    /\ tzOffset = 0
    /\ items = CatalogTwo
    /\ availabilities = SlotRules
    /\ bookings = <<>>
    /\ pc = [c \in Calls |-> "idle"]
    /\ op = [c \in Calls |-> "none"]
    /\ req = [c \in Calls |-> NoReq]
    /\ txn = [c \in Calls |-> "none"]
    /\ pending = [c \in Calls |-> NoBooking]
    /\ conflict = [c \in Calls |-> 0]
    /\ result = [c \in Calls |-> "none"]
    /\ returned = [c \in Calls |-> NoBooking]
    /\ dayAvail = [c \in Calls |-> <<>>]
    /\ session = [c \in Calls |-> <<>>]

\* Bookings with customer fields, fetched, cancelled and queried for slots.
NextGet ==
    \E c \in Calls :
        \/ \E data \in CustomerBookingInputs : CallCreateBooking(c, data)
        \/ \E id \in 1..(Len(bookings) + 1) : CallCancelBooking(c, id)
        \/ \E id \in 1..(Len(bookings) + 1) : CallGetBooking(c, id)
        \/ CallGetAvailableSlots(c, [itemId |-> "room", bookingDate |-> 0])
        \/ BookingSteps(c)
        \/ FindBookingById(c)
        \/ SlotsFindItem(c)
        \/ SlotsFindAvailabilities(c)
        \/ SlotsFindBookings(c)

SpecGet == InitGet /\ [][NextGet]_vars

\* Requests of the deactivation scenarios: the first slot of the room on
\* either date.
DeactivateBookingInputs ==
    { [itemId |-> "room", bookingDate |-> d, startTime |-> 0, endTime |-> 1, id |-> 0,
       customerName |-> John] : d \in Dates }

\* The rule that is deactivated: the MON window of the room that contains
\* the first slot.
DeactivatedId == 2

\* A rule is deactivated, by softDeleteAvailability or by an update of
\* isActive, while the room is booked and queried for slots.
NextDeactivate ==
    \E c \in Calls :
        \/ \E data \in DeactivateBookingInputs : CallCreateBooking(c, data)
        \/ \E d \in Dates : CallGetAvailableSlots(c, [itemId |-> "room", bookingDate |-> d])
        \/ CallSoftDeleteAvailability(c, DeactivatedId)
        \/ CallUpdateAvailability(c, DeactivatedId, [isActive |-> FALSE])
        \/ FindItem(c)
        \/ FindAvailabilities(c)
        \/ StartSession(c)
        \/ FindConflict(c)
        \/ CreateBookingDao(c)
        \/ CommitTransaction(c)
        \/ StorageFails(c)
        \/ SlotsFindItem(c)
        \/ SlotsFindAvailabilities(c)
        \/ SlotsFindBookings(c)
        \/ FindAvailabilityForDelete(c)
        \/ SoftDeleteAvailabilityDao(c)
        \/ FindAvailabilityForUpdate(c)
        \/ UpdateAvailabilityDao(c)
        \/ Return(c)

SpecDeactivate == InitSlots /\ [][NextDeactivate]_vars

\* Requests for the slots of the room on the two dates.
WindowBookingInputs ==
    { [itemId |-> "room", bookingDate |-> d, startTime |-> iv[1], endTime |-> iv[2], id |-> 0,
       customerName |-> John] :
        d \in Dates, iv \in { <<0, 1>>, <<1, 2>> } }

\* The room is booked, cancelled and queried for slots while its SUN rule
\* may be deactivated.
NextWindows ==
    \E c \in Calls :
        \/ \E data \in WindowBookingInputs : CallCreateBooking(c, data)
        \/ \E d \in Dates : CallGetAvailableSlots(c, [itemId |-> "room", bookingDate |-> d])
        \/ CallSoftDeleteAvailability(c, 1)
        \/ \E id \in 1..(Len(bookings) + 1) : CallCancelBooking(c, id)
        \/ BookingSteps(c)
        \/ SlotsFindItem(c)
        \/ SlotsFindAvailabilities(c)
        \/ SlotsFindBookings(c)
        \/ FindAvailabilityForDelete(c)
        \/ SoftDeleteAvailabilityDao(c)

SpecWindows == InitSlots /\ [][NextWindows]_vars

\* Updates that leave the window alone or move its start.
RuleUpdateInputs ==
    { [isActive |-> FALSE], [isActive |-> TRUE], [dayOfWeek |-> "MON"], [startTime |-> 1] }

\* Rules are created for the three item ids, updated and deactivated, from
\* an empty rule store.
NextCreateRules ==
    \E c \in Calls :
        \/ \E data \in CreateAvailabilityInputs : CallCreateAvailability(c, data)
        \/ CreateAvailabilityFindItem(c)
        \/ CreateAvailabilityDao(c)
        \/ \E id \in 1..(Cardinality(availabilities) + 1), data \in RuleUpdateInputs :
              CallUpdateAvailability(c, id, data)
        \/ FindAvailabilityForUpdate(c)
        \/ UpdateAvailabilityDao(c)
        \/ \E id \in 1..(Cardinality(availabilities) + 1) : CallSoftDeleteAvailability(c, id)
        \/ FindAvailabilityForDelete(c)
        \/ SoftDeleteAvailabilityDao(c)
        \/ Return(c)

SpecCreateRules == InitRules /\ [][NextCreateRules]_vars

TypeOK ==
    /\ tzOffset \in TzOffsets
    /\ \A i \in DOMAIN bookings : bookings[i].status \in {CONFIRMED, CANCELLED}
    /\ \A c \in Calls : txn[c] \in {"none", "active", "committed", "aborted"}

\* ================================================================ claims

\* Calendar weekday of the date "YYYY-MM-DD" (day 0 is a Sunday).
WeekdayOfDate(d) == days[(d % 7) + 1]

Proper(r) == r.startTime < r.endTime

\* Half-open overlap of [a.startTime, a.endTime) and [b.startTime, b.endTime).
Overlap(a, b) == a.startTime < b.endTime /\ b.startTime < a.endTime

SameKey(b, data) == b.itemId = data.itemId /\ b.bookingDate = NewDate(data.bookingDate)

CreateDone(c) == op[c] = "createBooking" /\ pc[c] = "done"

\* The step in which call c receives the answer of its conflict query.
ConflictQueryAnswered(c) ==
    pc[c] = "findConflict" /\ pc'[c] # "findConflict" /\ result'[c] # "StorageError"

\* C1: two createBooking calls running concurrently for the same item and
\* date with overlapping intervals, both past the bookable and availability
\* checks, no other reservation overlapping either: exactly one commits and
\* the other fails with SlotConflict.
C1_ExactlyOneCommits ==
    \A c1, c2 \in Calls :
        ( /\ c1 # c2
          /\ CreateDone(c1) /\ CreateDone(c2)
          /\ req[c1].itemId = req[c2].itemId
          /\ req[c1].bookingDate = req[c2].bookingDate
          /\ Proper(req[c1]) /\ Proper(req[c2])
          /\ Overlap(req[c1], req[c2])
          /\ txn[c1] # "none" /\ txn[c2] # "none"
          /\ result[c1] # "StorageError" /\ result[c2] # "StorageError"
          /\ \A i \in DOMAIN bookings :
                i \notin {returned[c1].id, returned[c2].id}
                    => ~(SameKey(bookings[i], req[c1])
                         /\ (Overlap(bookings[i], req[c1]) \/ Overlap(bookings[i], req[c2]))) )
        => {result[c1], result[c2]} = {"ok", "SlotConflict"}

\* C2: in every reachable state the CONFIRMED reservations of one item and
\* date are pairwise non-overlapping under half-open semantics.
C2_NoDoubleBooking ==
    \A i, j \in DOMAIN bookings :
        ( /\ i # j
          /\ bookings[i].status = CONFIRMED /\ bookings[j].status = CONFIRMED
          /\ bookings[i].itemId = bookings[j].itemId
          /\ bookings[i].bookingDate = bookings[j].bookingDate )
        => (bookings[i].endTime <= bookings[j].startTime
            \/ bookings[j].endTime <= bookings[i].startTime)

\* C3: for a proper interval past the bookable and availability checks the
\* conflict query answers SlotConflict exactly when some CONFIRMED
\* reservation of the same item and date overlaps it half-openly.
C3_ConflictIffOverlap ==
    [][ \A c \in Calls :
          (ConflictQueryAnswered(c) /\ Proper(req[c]))
          => ( (result'[c] = "SlotConflict")
               <=> \E i \in DOMAIN bookings :
                      /\ SameKey(bookings[i], req[c])
                      /\ bookings[i].status = CONFIRMED
                      /\ Overlap(bookings[i], req[c]) ) ]_vars

\* C3 witness: a proper request lying strictly inside a CONFIRMED
\* reservation has failed with SlotConflict.
C3_Witness ==
    \E c \in Calls :
        /\ CreateDone(c) /\ result[c] = "SlotConflict" /\ Proper(req[c])
        /\ conflict[c] \in DOMAIN bookings
        /\ bookings[conflict[c]].startTime < req[c].startTime
        /\ req[c].endTime < bookings[conflict[c]].endTime

Touches(b, data) == b.endTime = data.startTime \/ data.endTime = b.startTime

\* C4: a proper request that touches a CONFIRMED reservation of its item and
\* date at an endpoint and overlaps none gets no SlotConflict from the
\* conflict query and goes on to the insert; from there it ends with a
\* CONFIRMED reservation unless the storage fails.
C4_AdjacentIsLegal ==
    [][ \A c \in Calls :
          /\ ( /\ ConflictQueryAnswered(c) /\ Proper(req[c])
               /\ \E i \in DOMAIN bookings :
                     /\ SameKey(bookings[i], req[c]) /\ bookings[i].status = CONFIRMED
                     /\ Touches(bookings[i], req[c])
               /\ \A i \in DOMAIN bookings :
                     (SameKey(bookings[i], req[c]) /\ bookings[i].status = CONFIRMED)
                     => ~Overlap(bookings[i], req[c]) )
             => (pc'[c] = "createBookingDao" /\ conflict'[c] = 0)
          /\ ( /\ pc[c] \in {"createBookingDao", "commit"} /\ Proper(req[c])
               /\ pc'[c] = "done" /\ result'[c] # "StorageError" )
             => (result'[c] = "ok" /\ returned'[c].status = CONFIRMED) ]_vars

\* C4 witness: a call has returned a reservation that starts exactly where
\* another CONFIRMED reservation of the same item and date ends.
C4_Witness ==
    \E c \in Calls :
        /\ CreateDone(c) /\ result[c] = "ok"
        /\ \E i \in DOMAIN bookings :
              /\ i # returned[c].id
              /\ SameKey(bookings[i], req[c]) /\ bookings[i].status = CONFIRMED
              /\ bookings[i].endTime = req[c].startTime
        /\ bookings[returned[c].id].status = CONFIRMED

CoveringRules(data, day) ==
    { r \in availabilities :
        /\ r.itemId = data.itemId /\ r.isActive /\ r.dayOfWeek = day
        /\ r.startTime <= data.startTime /\ data.endTime <= r.endTime }

ItemBookable(id) == id \in DOMAIN items /\ items[id].isBookable

\* The step in which call c gets the outcome of its availability check.
AvailabilityChecked(c) == pc[c] = "findAvailabilities" /\ pc'[c] # "findAvailabilities"

\* C6: createBooking passes the availability check exactly when one single
\* active rule of the item, for the day-of-week of the booking date,
\* contains the whole interval.
C6_PassesIffSingleRuleCovers ==
    [][ \A c \in Calls :
          AvailabilityChecked(c)
          => ( (pc'[c] = "startSession")
               <=> CoveringRules(req[c], WeekdayOfDate(req[c].bookingDate)) # {} ) ]_vars

\* C6, with the weekday the process computes in place of the calendar one:
\* the single-rule containment test itself.
C6_PassesIffSingleRuleCoversLocalDay ==
    [][ \A c \in Calls :
          AvailabilityChecked(c)
          => ( (pc'[c] = "startSession")
               <=> CoveringRules(req[c], getDayOfWeekFromDate(NewDate(req[c].bookingDate))) # {} ) ]_vars

\* C7: a createBooking for a bookable item on a date whose day-of-week has
\* no active rule fails with OutsideAvailability (calls the storage failed
\* under are left aside).
C7_NoRuleDayIsOutsideAvailability ==
    \A c \in Calls :
        ( /\ CreateDone(c) /\ result[c] \notin {"ValidationError", "StorageError"}
          /\ ItemBookable(req[c].itemId)
          /\ ~\E r \in availabilities :
                /\ r.itemId = req[c].itemId /\ r.isActive
                /\ r.dayOfWeek = WeekdayOfDate(req[c].bookingDate) )
        => result[c] = "OutsideAvailability"

\* C7, with the weekday the process computes in place of the calendar one.
C7_NoRuleLocalDayIsOutsideAvailability ==
    \A c \in Calls :
        ( /\ CreateDone(c) /\ result[c] \notin {"ValidationError", "StorageError"}
          /\ ItemBookable(req[c].itemId)
          /\ ~\E r \in availabilities :
                /\ r.itemId = req[c].itemId /\ r.isActive
                /\ r.dayOfWeek = getDayOfWeekFromDate(NewDate(req[c].bookingDate)) )
        => (result[c] = "OutsideAvailability" /\ txn[c] = "none")

\* C8, with the weekday the process computes in place of the calendar one.
C8_SuccessIsInsideActiveRuleLocalDay ==
    \A c \in Calls :
        (CreateDone(c) /\ result[c] = "ok")
        => /\ returned[c].status = CONFIRMED
           /\ CoveringRules(req[c], getDayOfWeekFromDate(NewDate(req[c].bookingDate))) # {}

\* C8: a createBooking that returns successfully returns a CONFIRMED
\* reservation whose interval lies inside an active rule of the item for
\* the day-of-week of the booking date.
C8_SuccessIsInsideActiveRule ==
    \A c \in Calls :
        (CreateDone(c) /\ result[c] = "ok")
        => /\ returned[c].status = CONFIRMED
           /\ \E r \in availabilities :
                 /\ r.itemId = returned[c].itemId /\ r.isActive
                 /\ r.dayOfWeek = WeekdayOfDate(req[c].bookingDate)
                 /\ r.startTime <= returned[c].startTime
                 /\ returned[c].endTime <= r.endTime

\* C9: the preconditions are checked in the order item, availability,
\* startTime < endTime, overlap, and the first failing one is reported;
\* SlotConflict is raised only when the three preconditions hold.  (The
\* availability precondition is taken as the service evaluates it.)
C9_FirstFailingPreconditionReported ==
    \A c \in Calls :
        (CreateDone(c) /\ result[c] \notin {"ValidationError", "StorageError"})
        => LET data == req[c]
               exists == data.itemId \in DOMAIN items
               bookable == ItemBookable(data.itemId)
               within == isWithinAvailability(data)
           IN /\ ~exists => result[c] = "NotFound"
              /\ (exists /\ ~bookable) => result[c] = "NotBookable"
              /\ (bookable /\ ~within) => result[c] = "OutsideAvailability"
              /\ (bookable /\ within /\ ~Proper(data)) => result[c] = "InvalidRange"
              /\ result[c] = "SlotConflict" => (bookable /\ within /\ Proper(data))

\* C10: a createBooking that fails with NotFound, NotBookable, InvalidRange
\* or OutsideAvailability has started no transaction.
C10_PreconditionFailuresBeforeTransaction ==
    \A c \in Calls :
        ( /\ CreateDone(c)
          /\ result[c] \in {"NotFound", "NotBookable", "InvalidRange", "OutsideAvailability"} )
        => txn[c] = "none"

CancelDone(c) == op[c] = "cancelBooking" /\ pc[c] = "done"

C11_WitnessAlreadyCancelled ==
    \E c \in Calls :
        /\ CancelDone(c) /\ result[c] = "AlreadyCancelled"
        /\ bookings[req[c].id].status = CANCELLED

\* C12: a reservation appears only with the successful commit of a
\* createBooking and with status CONFIRMED; a stored reservation changes
\* only in its status and only from CONFIRMED to CANCELLED; none is removed.
C12_LifecycleMonotone ==
    [][ /\ Len(bookings') >= Len(bookings)
        /\ \A i \in DOMAIN bookings :
              /\ bookings'[i] \in {bookings[i], [bookings[i] EXCEPT !.status = CANCELLED]}
              /\ bookings[i].status = CANCELLED => bookings'[i].status = CANCELLED
        /\ \A i \in DOMAIN bookings' \ DOMAIN bookings :
              /\ bookings'[i].status = CONFIRMED
              /\ \E c \in Calls :
                    /\ op[c] = "createBooking" /\ pc[c] = "commit"
                    /\ pc'[c] = "done" /\ result'[c] = "ok"
                    /\ returned'[c] = bookings'[i] ]_vars

\* C12 witness: a reservation is CANCELLED, the cancel that did it has
\* returned, and a second cancel that read it as CONFIRMED is about to
\* write its status again.
C12_Witness ==
    \E c1, c2 \in Calls :
        /\ CancelDone(c1) /\ result[c1] = "ok"
        /\ op[c2] = "cancelBooking" /\ pc[c2] = "updateStatus"
        /\ req[c2].id = req[c1].id
        /\ bookings[req[c1].id].status = CANCELLED

SameSlot(b, data) ==
    SameKey(b, data) /\ b.startTime = data.startTime /\ b.endTime = data.endTime

\* C13: a createBooking for the item, date and interval of a CANCELLED
\* reservation passes the availability check again, gets no SlotConflict
\* when no CONFIRMED reservation of that item and date overlaps it, and then
\* ends with a CONFIRMED reservation unless the storage fails; the
\* reservation a SlotConflict reports is CONFIRMED, never CANCELLED.
C13_CancelFreesSlot ==
    [][ \A c \in Calls :
          LET freed == \E i \in DOMAIN bookings :
                          bookings[i].status = CANCELLED /\ SameSlot(bookings[i], req[c])
          IN
          /\ (AvailabilityChecked(c) /\ freed) => pc'[c] = "startSession"
          /\ ( /\ ConflictQueryAnswered(c) /\ freed
               /\ \A i \in DOMAIN bookings :
                     (SameKey(bookings[i], req[c]) /\ bookings[i].status = CONFIRMED)
                     => ~Overlap(bookings[i], req[c]) )
             => (pc'[c] = "createBookingDao" /\ conflict'[c] = 0)
          /\ ( /\ pc[c] \in {"createBookingDao", "commit"} /\ freed
               /\ pc'[c] = "done" /\ result'[c] # "StorageError" )
             => (result'[c] = "ok" /\ returned'[c].status = CONFIRMED)
          /\ (ConflictQueryAnswered(c) /\ result'[c] = "SlotConflict")
             => bookings[conflict'[c]].status = CONFIRMED ]_vars

\* C13 witness: a call has returned a CONFIRMED reservation for the item,
\* date and interval of a reservation that is CANCELLED.
C13_Witness ==
    \E c \in Calls :
        /\ CreateDone(c) /\ result[c] = "ok"
        /\ bookings[returned[c].id].status = CONFIRMED
        /\ \E i \in DOMAIN bookings :
              /\ i # returned[c].id /\ bookings[i].status = CANCELLED
              /\ SameSlot(bookings[i], req[c])

\* C15: every stored reservation has startTime < endTime.
C15_StoredBookingsProper ==
    \A i \in DOMAIN bookings : bookings[i].startTime < bookings[i].endTime

\* C15 witness: a request with startTime >= endTime has passed the item,
\* availability and conflict checks of the service, has been refused at the
\* insert, and the store holds a reservation.
C15_Witness ==
    \E c \in Calls :
        /\ CreateDone(c) /\ ~Proper(req[c]) /\ result[c] = "InvalidRange"
        /\ txn[c] = "aborted" /\ bookings # <<>>

C14_StoredRulesProper ==
    \A av \in availabilities : av.startTime < av.endTime

\* C14, second part: a create or update that is refused leaves the rule
\* store as it was.
C14_RejectedLeavesRulesUnchanged ==
    [][ \A c \in Calls :
          ( /\ op[c] \in {"createAvailability", "updateAvailability"}
            /\ pc[c] # "done" /\ pc'[c] = "done" /\ result'[c] # "ok" )
          => availabilities' = availabilities ]_vars

\* C14, for an update whose rule has not changed since the update read
\* it (the time checks still pass against the stored rule when the write is
\* made): the write keeps startTime < endTime.
C14_UpdateOfUnchangedRuleKeepsProper ==
    [][ \A c \in Calls :
          ( /\ pc[c] = "updateAvailabilityDao" /\ pc'[c] = "done"
            /\ \A existing \in findAvailabilityById(req[c].id) :
                  updateTimesValid(existing, req[c].data)
            /\ C14_StoredRulesProper )
          => C14_StoredRulesProper' ]_vars

Range(s) == { s[i] : i \in DOMAIN s }

Window(r) == [startTime |-> r.startTime, endTime |-> r.endTime]

\* The active rules of an item for a weekday, in the store.
ActiveRulesOn(itemId, day) ==
    { r \in availabilities : r.itemId = itemId /\ r.isActive /\ r.dayOfWeek = day }

\* The CONFIRMED reservations of the item and date of a query, in the store.
ConfirmedOn(data) ==
    { b \in Range(bookings) : SameKey(b, data) /\ b.status = CONFIRMED }

\* The weekday the process computes for the date of a request.
LocalDay(data) == getDayOfWeekFromDate(NewDate(data.bookingDate))

\* The step in which getAvailableSlots returns its response.
SlotsAnswered(c) ==
    /\ op[c] = "getAvailableSlots" /\ pc[c] # "done"
    /\ pc'[c] = "done" /\ result'[c] = "ok"

\* Whole-window granularity of the response call c returns, for the rules
\* of weekday day.
WholeWindows(c, day) ==
    SlotsAnswered(c)
    => /\ \A r \in ActiveRulesOn(req[c].itemId, day) :
             (Window(r) \in Range(returned'[c].availableSlots))
             <=> ~\E b \in ConfirmedOn(req[c]) : Overlap(b, r)
       /\ Range(returned'[c].availableSlots) \subseteq Range(returned'[c].availabilityRules)

\* C16: in the response of getAvailableSlots every active rule window of
\* the item for the day-of-week of the date is listed in availableSlots,
\* whole, exactly when no CONFIRMED reservation of the item and date
\* overlaps it, and every element of availableSlots is an element of
\* availabilityRules.
C16_WholeWindowSlots ==
    [][ \A c \in Calls : WholeWindows(c, WeekdayOfDate(req[c].bookingDate)) ]_vars

\* C16, with the weekday the process computes in place of the calendar one.
C16_WholeWindowSlotsLocalDay ==
    [][ \A c \in Calls : WholeWindows(c, LocalDay(req[c])) ]_vars

\* The answer of getAvailableSlots when the rules of weekday day are
\* resolved, and for an item that is not bookable.
EmptyDayAnswer(c, day) ==
    /\ ( /\ pc[c] = "slotsFindAvailabilities" /\ pc'[c] # pc[c]
         /\ ActiveRulesOn(req[c].itemId, day) = {} )
       => /\ pc'[c] = "done" /\ result'[c] = "ok"
          /\ returned'[c].availabilityRules = <<>>
          /\ returned'[c].bookedSlots = <<>>
          /\ returned'[c].availableSlots = <<>>
    /\ ( /\ pc[c] = "slotsFindItem" /\ pc'[c] # pc[c]
         /\ req[c].itemId \in DOMAIN items /\ ~items[req[c].itemId].isBookable )
       => (pc'[c] = "done" /\ result'[c] = "NotBookable")

\* C17: for a bookable item on a date whose day-of-week has no active rule
\* getAvailableSlots returns the all-empty response, not an error; for an
\* item that is not bookable it fails with NotBookable.
C17_NoRuleDayIsAllEmpty ==
    [][ \A c \in Calls : EmptyDayAnswer(c, WeekdayOfDate(req[c].bookingDate)) ]_vars

\* C17, with the weekday the process computes in place of the calendar one.
C17_NoRuleLocalDayIsAllEmpty ==
    [][ \A c \in Calls : EmptyDayAnswer(c, LocalDay(req[c])) ]_vars

\* bookedSlots of the response call c returns, when weekday day has an
\* active rule.
BookedSlotsExact(c, day) ==
    (SlotsAnswered(c) /\ ActiveRulesOn(req[c].itemId, day) # {})
    => /\ Range(returned'[c].bookedSlots) = { Window(b) : b \in ConfirmedOn(req[c]) }
       /\ Len(returned'[c].bookedSlots) = Cardinality(ConfirmedOn(req[c]))
       /\ \A w \in Range(returned'[c].availabilityRules) \ Range(returned'[c].availableSlots) :
             \E b \in ConfirmedOn(req[c]) : Overlap(b, w)

\* C18: when the day-of-week of the date has an active rule, bookedSlots is
\* exactly the CONFIRMED reservations of the item and date in the store,
\* and only those make a window unavailable.
C18_BookedSlotsAreConfirmedOnes ==
    [][ \A c \in Calls : BookedSlotsExact(c, WeekdayOfDate(req[c].bookingDate)) ]_vars

\* C18, with the weekday the process computes in place of the calendar one.
C18_BookedSlotsAreConfirmedOnesLocalDay ==
    [][ \A c \in Calls : BookedSlotsExact(c, LocalDay(req[c])) ]_vars

\* No CONFIRMED reservation of the item and date of request data, other
\* than those with an id in except, overlaps its interval.
KeyFree(data, except) ==
    \A i \in DOMAIN bookings \ except :
        (SameKey(bookings[i], data) /\ bookings[i].status = CONFIRMED)
        => ~Overlap(bookings[i], data)

\* C19: the reservation a SlotConflict reports has the item and the date of
\* the request; a proper request whose item and date hold no overlapping
\* CONFIRMED reservation gets no SlotConflict, whatever is reserved under
\* other items and dates and whatever another call is doing, and ends with
\* success unless the storage fails; two calls that ran concurrently on
\* different (item, date) keys, each free of overlapping reservations, have
\* both committed.
C19_KeysAreIndependent ==
    /\ [][ \A c \in Calls :
             /\ (ConflictQueryAnswered(c) /\ result'[c] = "SlotConflict")
                => SameKey(bookings[conflict'[c]], req[c])
             /\ (ConflictQueryAnswered(c) /\ Proper(req[c]) /\ KeyFree(req[c], {}))
                => (pc'[c] = "createBookingDao" /\ conflict'[c] = 0)
             /\ ( /\ pc[c] \in {"createBookingDao", "commit"} /\ Proper(req[c])
                  /\ pc'[c] = "done" /\ result'[c] # "StorageError" )
                => result'[c] = "ok" ]_vars
    /\ [](\A c1, c2 \in Calls :
            ( /\ c1 # c2 /\ CreateDone(c1) /\ CreateDone(c2)
              /\ <<req[c1].itemId, req[c1].bookingDate>> # <<req[c2].itemId, req[c2].bookingDate>>
              /\ txn[c1] # "none" /\ txn[c2] # "none"
              /\ result[c1] # "StorageError" /\ result[c2] # "StorageError"
              /\ KeyFree(req[c1], {returned[c1].id}) /\ KeyFree(req[c2], {returned[c2].id}) )
            => (result[c1] = "ok" /\ result[c2] = "ok"))

\* C19 witness: two calls that ran concurrently for the same interval, one
\* on another item or another date than the other, have both returned a
\* CONFIRMED reservation.
C19_Witness ==
    \E c1, c2 \in Calls :
        /\ c1 # c2 /\ CreateDone(c1) /\ CreateDone(c2)
        /\ result[c1] = "ok" /\ result[c2] = "ok"
        /\ <<req[c1].itemId, req[c1].bookingDate>> # <<req[c2].itemId, req[c2].bookingDate>>
        /\ Overlap(req[c1], req[c2])
        /\ bookings[returned[c1].id].status = CONFIRMED
        /\ bookings[returned[c2].id].status = CONFIRMED

\* C19 witness for two dates of one item.
C19_WitnessOtherDate ==
    \E c1, c2 \in Calls :
        /\ c1 # c2 /\ CreateDone(c1) /\ CreateDone(c2)
        /\ result[c1] = "ok" /\ result[c2] = "ok"
        /\ req[c1].itemId = req[c2].itemId /\ req[c1].bookingDate # req[c2].bookingDate
        /\ Overlap(req[c1], req[c2])

\* ---------------------------------------------------------------- C30

Count(log, method) == Cardinality({i \in DOMAIN log : log[i] = method})

TransactionStarted(c) ==
    op[c] = "createBooking" /\ Invoked(session[c], "startTransaction")

\* C30: on every path through createBooking after the transaction has been
\* started, the call invokes exactly one of commitTransaction and
\* abortTransaction, abortTransaction is only invoked while the session
\* still reports a transaction, the session is ended when the call has
\* finished, a SlotConflict call has invoked neither the insert nor the
\* commit, and a committed call has invoked no abort.
C30_SessionDiscipline ==
    \A c \in Calls : TransactionStarted(c) =>
        LET log == session[c] IN
        /\ \A i \in DOMAIN log :
              log[i] = "abortTransaction" => inTransaction(SubSeq(log, 1, i - 1))
        /\ Count(log, "commitTransaction") + Count(log, "abortTransaction") <= 1
        /\ pc[c] = "done" =>
              /\ Count(log, "commitTransaction") + Count(log, "abortTransaction") = 1
              /\ log[Len(log)] = "endSession"
              /\ result[c] = "SlotConflict" =>
                    ~Invoked(log, "create") /\ ~Invoked(log, "commitTransaction")
              /\ result[c] = "ok" =>
                    /\ txn[c] = "committed"
                    /\ Invoked(log, "commitTransaction")
                    /\ ~Invoked(log, "abortTransaction")

\* A conflict was found: the try block aborted and ended the session, and
\* the catch block then ran with no transaction left to abort.
C30_Witness ==
    \E c \in Calls :
        /\ pc[c] = "done" /\ result[c] = "SlotConflict"
        /\ session[c] = <<"startSession", "startTransaction",
                          "abortTransaction", "endSession", "endSession">>

\* The commit itself failed: the catch block ran after commitTransaction.
C30_WitnessCommitFails ==
    \E c \in Calls :
        /\ pc[c] = "done" /\ result[c] = "StorageError"
        /\ session[c] = <<"startSession", "startTransaction", "create",
                          "commitTransaction", "endSession">>

\* ---------------------------------------------------------------- C27

\* Two cancelBooking calls for one reservation that were running at the
\* same time: both outcomes are waiting, and a call is only issued while
\* no outcome is waiting, so each was issued before the other finished.
ConcurrentCancels(c, d) ==
    /\ c # d
    /\ CancelDone(c) /\ CancelDone(d)
    /\ req[c].id = req[d].id
    /\ req[c].id \in DOMAIN bookings

\* C27: of two cancelBooking calls running concurrently on one CONFIRMED
\* reservation, exactly one returns the cancelled record and the other
\* fails with AlreadyCancelled.
C27_ConcurrentCancelsOneWins ==
    \A c, d \in Calls :
        ConcurrentCancels(c, d) /\ result[c] = "ok" =>
            result[d] = "AlreadyCancelled"

\* What does hold under every interleaving: the reservation ends up
\* CANCELLED, and a call that read it after the other's write is refused.
C27_ConcurrentCancelsEndCancelled ==
    \A c, d \in Calls :
        ConcurrentCancels(c, d) /\ result[c] = "ok" =>
            /\ bookings[req[c].id].status = CANCELLED
            /\ result[d] \in {"ok", "AlreadyCancelled"}
            /\ returned[c].status = CANCELLED

\* Both calls read CONFIRMED before either wrote; both return the record.
C27_BothReturnCancelled ==
    \E c, d \in Calls :
        ConcurrentCancels(c, d) /\ result[c] = "ok" /\ result[d] = "ok"

\* The reads were serialised by the first write: one AlreadyCancelled.
C27_OneRefused ==
    \E c, d \in Calls :
        ConcurrentCancels(c, d) /\ result[c] = "ok" /\ result[d] = "AlreadyCancelled"

\* ---------------------------------------------------------------- C24

\* createBooking call c has resolved the day of week of its date and has
\* passed its availability check with it.
CreateUsedDay(c) ==
    /\ op[c] = "createBooking"
    /\ pc[c] \in {"startSession", "findConflict", "createBookingDao", "commit"}

\* getAvailableSlots call c has answered; the response names the day used.
SlotsDone(c) ==
    op[c] = "getAvailableSlots" /\ pc[c] = "done" /\ result[c] = "ok"

DayUsedIsCalendarDay ==
    /\ \A c \in Calls :
          CreateUsedDay(c) => LocalDay(req[c]) = WeekdayOfDate(req[c].bookingDate)
    /\ \A c \in Calls :
          SlotsDone(c) => returned[c].dayOfWeek = WeekdayOfDate(returned[c].date)

\* C24: the day of week createBooking and getAvailableSlots use for a
\* "YYYY-MM-DD" date is the calendar weekday of that date, whatever the
\* time zone of the process.
C24_DayOfWeekIsCalendarWeekday == DayUsedIsCalendarDay

\* In a process whose zone is UTC the day used is the calendar weekday.
C24_CalendarWeekdayAtUTC == tzOffset = 0 => DayUsedIsCalendarDay

\* West of UTC a response names the day before the date's weekday.
C24_ResponseNamesDayBefore ==
    \E c \in Calls :
        /\ SlotsDone(c) /\ tzOffset < 0
        /\ returned[c].date = 0 /\ returned[c].dayOfWeek = "SAT"

\* ---------------------------------------------------------------- C25

ProperIntervals ==
    { iv \in [startTime : Times, endTime : Times] : Proper(iv) }

\* The conflict query createBooking would run for the interval of window
\* av on the item and date of stored reservation i finds i.
DetectorFinds(av, i) ==
    i \in findConflictingBookingDao(bookings[i].itemId, bookings[i].bookingDate,
                                    av.startTime, av.endTime)

\* C25: for a window and a booking, both with startTime < endTime, the
\* slot calculator marks the window as conflicting with the booking
\* exactly when the conflict query of createBooking, asked for the
\* window's interval, matches the booking: over every pair of proper
\* intervals, and over every stored rule and CONFIRMED reservation.
C25_SameOverlapRelation ==
    /\ \A w, b \in ProperIntervals :
          hasConflictWith(w, b) <=> ConflictClauses(b, w.startTime, w.endTime)
    /\ \A av \in availabilities : \A i \in DOMAIN bookings :
          bookings[i].status = CONFIRMED /\ Proper(av) /\ Proper(bookings[i]) =>
              (hasConflictWith(av, bookings[i]) <=> DetectorFinds(av, i))

\* A stored reservation ends exactly where a stored window starts: neither
\* test counts it; another window contains it: both tests count it.
C25_Witness ==
    \E av, aw \in availabilities : \E i \in DOMAIN bookings :
        /\ bookings[i].status = CONFIRMED
        /\ av.itemId = bookings[i].itemId /\ aw.itemId = bookings[i].itemId
        /\ bookings[i].endTime = av.startTime
        /\ ~hasConflictWith(av, bookings[i]) /\ ~DetectorFinds(av, i)
        /\ hasConflictWith(aw, bookings[i]) /\ DetectorFinds(aw, i)

\* ---------------------------------------------------------------- C26

\* The request for interval iv on the item and date of query data.
BookingFor(data, iv) ==
    [itemId |-> data.itemId, bookingDate |-> data.bookingDate,
     startTime |-> iv.startTime, endTime |-> iv.endTime]

\* Every test of createBooking passes for request data in this state: the
\* item is stored and bookable, an active rule of the day contains the
\* interval, the conflict query matches nothing, the pre-save hook passes.
CreateBookingPasses(data) ==
    /\ ~findItemById(data.itemId).isNull
    /\ findItemById(data.itemId).isBookable
    /\ isWithinAvailability(data)
    /\ findConflictingBookingDao(data.itemId, NewDate(data.bookingDate),
                                 data.startTime, data.endTime) = {}
    /\ preSave(data)

Inside(iv, w) == w.startTime <= iv.startTime /\ iv.endTime <= w.endTime

\* C26: when getAvailableSlots answers with window W in availableSlots,
\* and the rules it resolved are the rules of the store at that moment,
\* createBooking for any interval [s, e), s < e, contained in W on that
\* item and date, evaluated in that same state, passes the availability
\* check and the conflict check (and the other tests of createBooking).
C26_ListedWindowIsBookable ==
    [][ \A c \in Calls :
          SlotsAnswered(c) /\ dayAvail[c] = dayAvailabilitiesSorted(req[c]) =>
              \A w \in Range(returned'[c].availableSlots) :
                  \A iv \in ProperIntervals :
                      Inside(iv, w) => CreateBookingPasses(BookingFor(req[c], iv)) ]_vars

\* A response lists a window, and a createBooking for a part of the listed
\* window, committed after the response, has succeeded.
C26_Witness ==
    \E c, d \in Calls :
        /\ SlotsDone(c)
        /\ op[d] = "createBooking" /\ pc[d] = "done" /\ result[d] = "ok"
        /\ SameKey(returned[d], req[c])
        /\ \E w \in Range(returned[c].availableSlots) :
              Inside(returned[d], w) /\ returned[d].endTime < w.endTime

\* ---------------------------------------------------------------- C28

\* The step in which createBooking call c commits its reservation.
Commits(c) ==
    /\ op[c] = "createBooking" /\ pc[c] = "commit"
    /\ pc'[c] = "done" /\ result'[c] = "ok"

\* C28: a createBooking running concurrently with a rule deactivation
\* commits only if, at the moment it commits, some active rule of the
\* item for the day of week the process resolved contains its interval.
C28_CommitInsideActiveRule ==
    [][ \A c \in Calls : Commits(c) => isWithinAvailability(req[c]) ]_vars

\* What the code does ensure: at commit a stored rule of the item and day,
\* active or deactivated since the call read it, contains the interval.
C28_CommitInsideStoredRule ==
    [][ \A c \in Calls :
          Commits(c) =>
              \E r \in availabilities :
                  /\ r.itemId = req[c].itemId /\ r.dayOfWeek = LocalDay(req[c])
                  /\ Inside(req[c], r) ]_vars

\* A CONFIRMED reservation was committed after the rule it relied on had
\* been deactivated.
C28_CommittedOutsideActiveRules ==
    \E c \in Calls :
        /\ op[c] = "createBooking" /\ pc[c] = "done" /\ result[c] = "ok"
        /\ ~isWithinAvailability(req[c])
        /\ \E d \in Calls : op[d] = "softDeleteAvailability" /\ result[d] = "ok"

\* ---------------------------------------------------------------- C29

\* A step of a running call of operation o (its Return included).
StepOf(c, o) == op[c] = o /\ pc'[c] # pc[c]

\* The customer fields a request or a reservation carries.
CustomerFieldsOf(r) ==
    [f \in {"customerName"} \cup (OptionalPaths \cap DOMAIN r) |-> r[f]]

\* The commit of call c appends one CONFIRMED reservation for the
\* requested item, date and interval, with customer fields customer.
AddsOne(c, customer) ==
    /\ Len(bookings') = Len(bookings) + 1
    /\ SubSeq(bookings', 1, Len(bookings)) = bookings
    /\ LET b == bookings'[Len(bookings')] IN
          /\ b.itemId = req[c].itemId
          /\ b.bookingDate = NewDate(req[c].bookingDate)
          /\ b.startTime = req[c].startTime /\ b.endTime = req[c].endTime
          /\ b.status = CONFIRMED
          /\ CustomerFieldsOf(b) = customer

\* What a step of createBooking, cancelBooking or getAvailableSlots leaves
\* alone: createBooking writes only at its commit, cancelBooking adds no
\* reservation, getAvailableSlots writes nothing, none writes a rule.
LeavesAlone(c) ==
    /\ StepOf(c, "createBooking") =>
          /\ availabilities' = availabilities /\ items' = items
          /\ Commits(c) \/ bookings' = bookings
    /\ StepOf(c, "cancelBooking") =>
          /\ availabilities' = availabilities /\ items' = items
          /\ Len(bookings') = Len(bookings)
    /\ StepOf(c, "getAvailableSlots") =>
          /\ availabilities' = availabilities /\ items' = items
          /\ bookings' = bookings

\* C29 as stated: a successful createBooking adds exactly one reservation
\* with the requested item, date, interval and customer fields and status
\* CONFIRMED, and leaves every existing reservation and every rule
\* unchanged; cancelBooking and getAvailableSlots add no reservation and
\* change no rule.
C29_CreateAddsOneAsRequested ==
    [][ \A c \in Calls :
          /\ Commits(c) => AddsOne(c, CustomerFieldsOf(req[c]))
          /\ LeavesAlone(c) ]_vars

\* C29, with the customer fields stored as the schema's trim setter leaves
\* them: without leading and trailing blanks.
C29_CreateAddsOneTrimmed ==
    [][ \A c \in Calls :
          /\ Commits(c) =>
                AddsOne(c, [f \in DOMAIN CustomerFieldsOf(req[c]) |-> trim(req[c][f])])
          /\ LeavesAlone(c) ]_vars

\* A second reservation was added for a request with a padded name and a
\* padded phone; the first reservation is still in place.
C29_Witness ==
    \E c \in Calls :
        /\ CreateDone(c) /\ result[c] = "ok"
        /\ returned[c].id = 2 /\ bookings[2] = returned[c]
        /\ "customerPhone" \in DOMAIN req[c]
        /\ req[c].customerName # returned[c].customerName
        /\ req[c].customerPhone # returned[c].customerPhone

\* ---------------------------------------------------------------- C21

\* An itemId as a response carries it when it is the bare reference.
Reference(id) == [_id |-> id]

\* Call d has fetched the reservation call c has created, and the
\* reservation has not been cancelled.
FetchedCreated(c, d) ==
    /\ CreateDone(c) /\ result[c] = "ok"
    /\ op[d] = "getBooking" /\ pc[d] = "done" /\ result[d] = "ok"
    /\ req[d].id = returned[c].id
    /\ bookings[returned[c].id].status = CONFIRMED

\* The fields of the round trip other than itemId.
SameOtherFields(created, fetched) ==
    /\ fetched.bookingDate = created.bookingDate
    /\ fetched.startTime = created.startTime
    /\ fetched.endTime = created.endTime
    /\ CustomerFieldsOf(fetched) = CustomerFieldsOf(created)
    /\ fetched.status = created.status

\* C21: after a successful createBooking, getBooking by the returned id,
\* with no cancel in between, returns a reservation with the same itemId,
\* date, startTime, endTime, customerName, customerEmail, customerPhone
\* and status as the reservation createBooking returned.
C21_RoundTrip ==
    \A c, d \in Calls :
        FetchedCreated(c, d) =>
            /\ returned[d].itemId = Reference(returned[c].itemId)
            /\ SameOtherFields(returned[c], returned[d])

\* What the round trip does preserve: every listed field but itemId, in
\* whose place the fetched reservation carries the Item document of that
\* id.
C21_RoundTripPopulated ==
    \A c, d \in Calls :
        FetchedCreated(c, d) =>
            /\ returned[d].itemId = populate(returned[c]).itemId
            /\ returned[d].itemId._id = returned[c].itemId
            /\ SameOtherFields(returned[c], returned[d])

\* A reservation created from padded customer fields has been fetched.
C21_Fetched ==
    \E c, d \in Calls :
        /\ FetchedCreated(c, d)
        /\ "customerPhone" \in DOMAIN req[c]
        /\ req[c].customerName # returned[c].customerName

\* ---------------------------------------------------------------- C23

CreateAvailabilityDone(c) == op[c] = "createAvailability" /\ pc[c] = "done"

\* The item a createAvailability call names is stored and bookable.
RuleItemBookable(c) ==
    /\ req[c].data.itemId \in DOMAIN items
    /\ items[req[c].data.itemId].isBookable

\* C23: createAvailability for a stored item that is not bookable ends
\* with NotBookable, for an id under which no item is stored with NotFound;
\* no step of such a call writes the rule store, a rule is only inserted by
\* a call whose item is bookable, and every stored rule belongs to a
\* bookable item.
C23_RulesOnlyForBookableItems ==
    /\ [][ \A c \in Calls :
             op[c] = "createAvailability" /\ pc'[c] # pc[c] =>
                 /\ pc[c] = "avFindItem" /\ req[c].data.itemId \notin DOMAIN items
                       => pc'[c] = "done" /\ result'[c] = "NotFound"
                 /\ pc[c] = "avFindItem" /\ req[c].data.itemId \in DOMAIN items
                    /\ ~RuleItemBookable(c)
                       => pc'[c] = "done" /\ result'[c] = "NotBookable"
                 /\ ~RuleItemBookable(c) => availabilities' = availabilities ]_vars
    /\ [](\A r \in availabilities :
             r.itemId \in DOMAIN items /\ items[r.itemId].isBookable)
    /\ [](\A c \in Calls :
             CreateAvailabilityDone(c) /\ result[c] = "ok" => RuleItemBookable(c))

\* A call for the item that is not bookable has been refused and the rule
\* store holds no rule.
C23_Witness ==
    \E c \in Calls :
        /\ CreateAvailabilityDone(c) /\ result[c] = "NotBookable"
        /\ req[c].data.itemId = "coffee"
        /\ availabilities = {}

\* A call for an id without an item has been refused.
C23_WitnessNotFound ==
    \E c \in Calls :
        /\ CreateAvailabilityDone(c) /\ result[c] = "NotFound"
        /\ req[c].data.itemId = "ghost"

\* ---------------------------------------------------------------- C22

\* Request data is covered only by deactivated rules of weekday day: a
\* stored rule of the item and day with isActive = false contains its
\* interval, and no active rule of the item and day does.
CoveredOnlyByDeactivated(data, day) ==
    /\ \E r \in availabilities :
          /\ ~r.isActive /\ r.itemId = data.itemId /\ r.dayOfWeek = day
          /\ Inside(data, r)
    /\ ~\E r \in ActiveRulesOn(data.itemId, day) : Inside(data, r)

\* The step in which call c writes isActive = false.
Deactivates(c) ==
    /\ \/ op[c] = "softDeleteAvailability" /\ pc[c] = "softDeleteAvailabilityDao"
       \/ op[c] = "updateAvailability" /\ pc[c] = "updateAvailabilityDao"
    /\ pc'[c] = "done" /\ result'[c] = "ok"

\* The deactivated rule stays stored, with isActive = false and its other
\* fields as they were, and a deactivated rule stays as it is.
StaysStoredInactive ==
    /\ \A c \in Calls :
          Deactivates(c) =>
              \E old \in availabilities :
                  /\ old.id = req[c].id
                  /\ [old EXCEPT !.isActive = FALSE] \in availabilities'
                  /\ Cardinality(availabilities') = Cardinality(availabilities)
    /\ \A r \in availabilities : ~r.isActive => r \in availabilities'

\* getAvailableSlots resolves only rules that are active in the store as
\* it reads them: no window of a deactivated rule is offered.
SlotsReadOnlyActive(c) ==
    (op[c] = "getAvailableSlots" /\ pc[c] = "slotsFindAvailabilities" /\ pc'[c] # pc[c])
    => /\ Range(dayAvail'[c]) \subseteq { r \in availabilities : r.isActive }
       /\ pc'[c] = "done" =>
             /\ returned'[c].availableSlots = <<>>
             /\ \A r \in availabilities :
                   (r.itemId = req[c].itemId /\ r.dayOfWeek = returned'[c].dayOfWeek)
                       => ~r.isActive

\* createBooking's availability check, read when only deactivated rules
\* of weekday day cover the request, ends with OutsideAvailability.
CheckRefusesDeactivated(c, day) ==
    ( /\ op[c] = "createBooking" /\ pc[c] = "findAvailabilities" /\ pc'[c] # pc[c]
      /\ CoveredOnlyByDeactivated(req[c], day) )
    => (pc'[c] = "done" /\ result'[c] = "OutsideAvailability")

\* C22: a deactivated rule is still stored with isActive = false, and from
\* then on neither the availability check of createBooking nor
\* getAvailableSlots treats its window as open: a booking that only the
\* deactivated rule covers, on the day of week of its date, fails with
\* OutsideAvailability.
C22_DeactivatedRuleNeverUsed ==
    [][ /\ StaysStoredInactive
        /\ \A c \in Calls :
              /\ SlotsReadOnlyActive(c)
              /\ CheckRefusesDeactivated(c, WeekdayOfDate(req[c].bookingDate)) ]_vars

\* C22, with the weekday the process computes in place of the calendar one.
C22_DeactivatedRuleNeverUsedLocalDay ==
    [][ /\ StaysStoredInactive
        /\ \A c \in Calls :
              /\ SlotsReadOnlyActive(c)
              /\ CheckRefusesDeactivated(c, LocalDay(req[c])) ]_vars

\* A booking the deactivated MON rule alone covers has been refused.
C22_RefusedAfterDeactivation ==
    \E c \in Calls :
        /\ CreateDone(c) /\ result[c] = "OutsideAvailability"
        /\ CoveredOnlyByDeactivated(req[c], "MON")
        /\ WeekdayOfDate(req[c].bookingDate) = "MON"

\* A booking the deactivated MON rule alone covers has been committed,
\* through the SUN rule, after the deactivation.
C22_BookedAfterDeactivation ==
    \E c \in Calls :
        /\ CreateDone(c) /\ result[c] = "ok"
        /\ CoveredOnlyByDeactivated(req[c], WeekdayOfDate(req[c].bookingDate))

====
